---------------------------- MODULE Spec2Model ----------------------------
(***************************************************************************)
(* OpenAPI-Job: parse.js, the current variant (src/parse.js lines 351-692).*)
(* The script reads an OpenAPI document, adds generated client code        *)
(* samples to every operation (enrichSchema) and writes the result as JSON.*)
(*                                                                         *)
(* JavaScript values are encoded as records with a tag t, so that values   *)
(* of different JavaScript types can be compared.                          *)
(***************************************************************************)
EXTENDS Integers, Sequences, FiniteSets, TLC

VARIABLES
    argv,        \* process.argv, "node" and "parse.js" included
    disk,        \* the file system: file name -> content
    isVerbose,   \* let isVerbose
    targets,     \* let targets
    pc,          \* position of the run
    exitCode,    \* exit code of the process, -1 while it runs
    schema,      \* the document in memory
    log,         \* console output, one record per logMessage call
    fsOps,       \* history: file system operations performed, in order
    pending,     \* the fs.writeFile / fs.readFile request in flight
    entry,       \* history: the document on entry to the last enrichSchema call
    thrown,      \* the exception that ended the run or the last enrichSchema call
    genCalls,    \* history: generator invocations of the last enrichSchema call
    runs,        \* number of enrichSchema calls so far
    prevTargets  \* history: the Target Set of the enrichSchema call before the last

vars == <<argv, disk, isVerbose, targets, pc, exitCode, schema, log, fsOps,
          pending, entry, thrown, genCalls, runs, prevTargets>>

---------------------------------------------------------------------------
(* Bounds of the model *)

\* operations in a document
MaxOps == 2
\* length of an x-code-samples sequence a document has before enrichment
MaxLen == 1

---------------------------------------------------------------------------
(* JavaScript values *)

Undefined == [t |-> "undefined"]
Null == [t |-> "null"]
Arr(items) == [t |-> "array", items |-> items]
NoError == [t |-> "none"]

\* !v of JavaScript, for the values the model holds: undefined and null are
\* falsy, arrays and objects are truthy
Truthy(v) == v.t \notin {"undefined", "null"}

\* a[i], i counted from 0; past the end of the array it is undefined
ArrayGet(a, i) == IF i < Len(a.items) THEN a.items[i + 1] ELSE Undefined

\* (mutation) a.push(v): the value is put at the end, whatever the index
ArrayPush(a, i, v) == Arr(Append(a.items, v))

\* a[i] = v, i counted from 0; past the end the array grows, with holes
\* (which read as undefined) below i
ArraySet(a, i, v) ==
    IF i < Len(a.items)
    THEN Arr([a.items EXCEPT ![i + 1] = v])
    ELSE Arr(a.items \o [k \in 1..(i - Len(a.items)) |-> Undefined] \o <<v>>)

---------------------------------------------------------------------------
(* Targets *)

validTargets == <<
    "c_libcurl", "csharp_restsharp", "go_native", "java_okhttp", "java_unirest",
    "javascript_jquery", "javascript_xhr", "node_native", "node_request",
    "node_unirest", "objc_nsurlsession", "ocaml_cohttp", "php_curl", "php_http1",
    "php_http2", "python_python3", "python_requests", "ruby_native", "shell_curl",
    "shell_httpie", "shell_wget", "swift_nsurlsession" >>

\* the initial value of let targets
defaultTargets == <<
    "php_curl", "javascript_xhr", "java_okhttp", "python_requests",
    "python_python3", "go_native", "shell_curl" >>

\* Array.prototype.includes
Includes(arr, x) == \E i \in 1..Len(arr) : arr[i] = x

\* sequences over S of length at most n
SeqUpTo(S, n) == UNION {[1..k -> S] : k \in 0..n}

---------------------------------------------------------------------------
(* Logging *)

\* logMessage: one line on the console
logMessage(msg, nesting, type) == [msg |-> msg, nesting |-> nesting, type |-> type]

\* messageIfVerbose: the lines it adds to the console
messageIfVerbose(verbose, msg, nesting, type) ==
    IF verbose THEN <<logMessage(msg, nesting, type)>> ELSE <<>>

---------------------------------------------------------------------------
(* Documents *)

PathKeys == <<"/pets", "/users", "/orders", "/items">>

\* the keys of a path item, in iteration order: HTTP methods, and
\* parameters, a member of a path item that is no operation
MethodKeys == {<<"get">>, <<"get", "post">>, <<"parameters", "get">>}

\* a sample written by hand, not by the generator
ManualSample == [t |-> "object", lang |-> "ruby_native", source |-> <<"by", "hand">>]

\* the values an x-code-samples field has in a document read from a file:
\* absent, or a sequence of entries, each a sample or JSON null
XcsValues ==
    {Undefined} \cup {Arr(s) : s \in SeqUpTo({Null, ManualSample}, MaxLen)}

\* a member of a path item, an operation object or the parameters array, as
\* far as the script looks at it; malformed tells whether the generator
\* fails on it
Operations ==
    [summary : {"an operation"}, malformed : BOOLEAN, xcs : XcsValues]

\* the shapes of a paths mapping with n members in all: the keys under each
\* path
RECURSIVE Layouts(_)
Layouts(n) ==
    IF n = 0 THEN {<<>>}
    ELSE UNION {{<<keys>> \o l : l \in Layouts(n - Len(keys))} :
                    keys \in {k \in MethodKeys : Len(k) <= n}}

\* the number of members under the first k paths of the shape l
RECURSIVE SumTo(_, _)
SumTo(l, k) == IF k = 0 THEN 0 ELSE Len(l[k]) + SumTo(l, k - 1)

\* the paths mapping of shape l holding the members ops, in iteration order
MakePaths(l, ops) ==
    [p \in 1..Len(l) |->
        [key |-> PathKeys[p],
         item |-> [m \in 1..Len(l[p]) |->
                     [key |-> l[p][m], value |-> ops[SumTo(l, p - 1) + m]]]]]

\* a document without a paths property
NoPathsDoc == [openapi |-> "3.0.0", hasPaths |-> FALSE, paths |-> <<>>]

\* the document with the paths mapping of shape l holding the operations ops
PathsDoc(l, ops) == [openapi |-> "3.0.0", hasPaths |-> TRUE, paths |-> MakePaths(l, ops)]

\* doc is one of the documents a file may hold: one without paths, or one
\* with at most MaxOps operations
IsDoc(doc) ==
    \/ doc = NoPathsDoc
    \/ \E ops \in SeqUpTo(Operations, MaxOps) :
          \E l \in Layouts(Len(ops)) : doc = PathsDoc(l, ops)

\* the (path, key) pairs of a document, as index pairs, in iteration order
RECURSIVE PairsFrom(_, _, _)
PairsFrom(doc, p, m) ==
    IF p > Len(doc.paths) THEN <<>>
    ELSE IF m > Len(doc.paths[p].item) THEN PairsFrom(doc, p + 1, 1)
    ELSE <<(<<p, m>>)>> \o PairsFrom(doc, p, m + 1)

\* (mutation) the pairs in the opposite order
PairsBackwards(doc) ==
    [k \in 1..Len(PairsFrom(doc, 1, 1)) |->
        PairsFrom(doc, 1, 1)[Len(PairsFrom(doc, 1, 1)) + 1 - k]]

Pairs(doc) == PairsFrom(doc, 1, 1)

\* schema.paths[path][method]
OpAt(doc, pr) == doc.paths[pr[1]].item[pr[2]].value

PathOf(doc, pr) == doc.paths[pr[1]].key
MethodOf(doc, pr) == doc.paths[pr[1]].item[pr[2]].key

---------------------------------------------------------------------------
(* The snippet generator (the openapi-snippet package) *)

\* OpenAPISnippet.getEndpointSnippets(schema, path, method, targets): one
\* snippet per target, in the order of the targets; it raises on a
\* malformed operation
getEndpointSnippets(doc, pr, T) ==
    IF OpAt(doc, pr).malformed
    THEN [raised |-> TRUE, snippets |-> <<>>]
    ELSE [raised |-> FALSE,
          snippets |-> [i \in 1..Len(T) |->
                          [title |-> T[i],
                           content |-> <<PathOf(doc, pr), MethodOf(doc, pr), T[i]>>]]]

---------------------------------------------------------------------------
(* enrichSchema *)

PropertyError(property) == [t |-> "PropertyError", property |-> property]
GeneratorError == [t |-> "GeneratorError", property |-> ""]

\* (mutation) lang and source swapped
SampleOfSwapped(snippet) == [t |-> "object", lang |-> snippet.content, source |-> snippet.title]

\* the Sample written for a snippet
SampleOf(snippet) == [t |-> "object", lang |-> snippet.title, source |-> snippet.content]

\* (mutation) every slot is taken as free, so that an entry is overwritten
SlotFreeAlways(xcs, snippetIdx) == TRUE

\* whether x-code-samples[snippetIdx] is taken as free
SlotFree(xcs, snippetIdx) == ~Truthy(ArrayGet(xcs, snippetIdx))

\* whether the operation is taken to have an x-code-samples field already
FieldPresent(op) == Truthy(op.xcs)

\* (mutation) the notice of an occupied index is sent only when verbose
RECURSIVE mergeSnippetsQuiet(_, _, _, _, _)
mergeSnippetsQuiet(st, snippets, snippetIdx, path, verbose) ==
    IF snippetIdx >= Len(snippets) THEN st
    ELSE
      LET snippet == snippets[snippetIdx + 1]
          checking == messageIfVerbose(verbose, <<"Checking existance of field", snippet.title>>, 1, "Info")
      IN IF SlotFree(st.xcs, snippetIdx)
         THEN mergeSnippetsQuiet(
                [xcs |-> ArraySet(st.xcs, snippetIdx, SampleOf(snippet)),
                 log |-> st.log \o checking
                         \o messageIfVerbose(verbose, <<"Added field", snippet.title>>, 2, "Completed")],
                snippets, snippetIdx + 1, path, verbose)
         ELSE mergeSnippetsQuiet(
                [xcs |-> st.xcs,
                 log |-> st.log \o checking
                         \o messageIfVerbose(verbose,
                                <<"Field already exists in path, skipping.", snippet.title, path>>,
                                2, "Warning")],
                snippets, snippetIdx + 1, path, verbose)

\* the loop over generatedCode.snippets, from index snippetIdx on; st holds
\* the x-code-samples array and the console
RECURSIVE mergeSnippets(_, _, _, _, _)
mergeSnippets(st, snippets, snippetIdx, path, verbose) ==
    IF snippetIdx >= Len(snippets) THEN st
    ELSE
      LET snippet == snippets[snippetIdx + 1]
          checking == messageIfVerbose(verbose, <<"Checking existance of field", snippet.title>>, 1, "Info")
      IN IF SlotFree(st.xcs, snippetIdx)
         THEN mergeSnippets(
                [xcs |-> ArraySet(st.xcs, snippetIdx, SampleOf(snippet)),
                 log |-> st.log \o checking
                         \o messageIfVerbose(verbose, <<"Added field", snippet.title>>, 2, "Completed")],
                snippets, snippetIdx + 1, path, verbose)
         ELSE mergeSnippets(
                [xcs |-> st.xcs,
                 log |-> st.log \o checking
                         \o <<logMessage(<<"Field already exists in path, skipping.", snippet.title, path>>,
                                         2, "Warning")>>],
                snippets, snippetIdx + 1, path, verbose)

\* (mutation) the assignment to the field also rewrites the summary
WithXcsAndSummary(doc, pr, xcs) ==
    [doc EXCEPT !.paths[pr[1]].item[pr[2]].value.xcs = xcs,
                !.paths[pr[1]].item[pr[2]].value.summary = "enriched"]

\* (mutation) the assignments to the field are lost
WithXcsLost(doc, pr, xcs) == doc

\* schema with schema.paths[path][method]["x-code-samples"] set to xcs
WithXcs(doc, pr, xcs) ==
    [doc EXCEPT !.paths[pr[1]].item[pr[2]].value.xcs = xcs]

\* the body of the inner loop of enrichSchema for one (path, method) pair;
\* st holds the document, the console, the generator calls and the exception
enrichOperation(st, pr, T, verbose) ==
    LET path == PathOf(st.schema, pr)
        generatedCode == getEndpointSnippets(st.schema, pr, T)
        calls == Append(st.genCalls, <<path, MethodOf(st.schema, pr), T>>)
        had == FieldPresent(OpAt(st.schema, pr))
        xcs0 == IF had THEN OpAt(st.schema, pr).xcs ELSE Arr(<<>>)
        log0 == st.log
                \o messageIfVerbose(verbose, <<"Checking existance of 'x-code-samples' field in path", path>>, 1, "Info")
                \o (IF had
                    THEN messageIfVerbose(verbose, <<"'x-code-samples' field already exists, skipping.">>, 1, "Warning")
                    ELSE messageIfVerbose(verbose, <<"Added 'x-code-samples' field.">>, 1, "Completed"))
        merged == mergeSnippets([xcs |-> xcs0, log |-> log0], generatedCode.snippets, 0, path, verbose)
    IN IF generatedCode.raised
       THEN [st EXCEPT !.genCalls = calls, !.thrown = GeneratorError]
       ELSE [schema |-> WithXcs(st.schema, pr, merged.xcs),
             log |-> merged.log,
             genCalls |-> calls,
             thrown |-> NoError]

\* the two nested loops of enrichSchema, from the k-th of the (path, method)
\* pairs on
RECURSIVE enrichFrom(_, _, _, _, _)
enrichFrom(st, pairs, k, T, verbose) ==
    IF st.thrown # NoError \/ k > Len(pairs) THEN st
    ELSE enrichFrom(enrichOperation(st, pairs[k], T, verbose), pairs, k + 1, T, verbose)

\* (mutation) no check of the paths property, as in the first variant of the
\* script
enrichSchemaUnchecked(doc, T, verbose, console) ==
    enrichFrom([schema |-> doc, log |-> console, genCalls |-> <<>>, thrown |-> NoError],
               Pairs(doc), 1, T, verbose)

\* enrichSchema(schema), with the globals targets and isVerbose and the
\* console it writes to passed in; the result holds the document (mutated in
\* place), the console, the generator calls and the exception thrown, if any
enrichSchema(doc, T, verbose, console) ==
    IF ~doc.hasPaths
    THEN [schema |-> doc, log |-> console, genCalls |-> <<>>, thrown |-> PropertyError("paths")]
    ELSE enrichFrom([schema |-> doc, log |-> console, genCalls |-> <<>>, thrown |-> NoError],
                    Pairs(doc), 1, T, verbose)

---------------------------------------------------------------------------
(* The earlier variants of enrichSchema the repository holds *)

\* enrichSchema of the first variant of src/parse.js: the loops of the
\* latest variant, without the check of the paths property (a for..in over
\* an absent paths runs no iteration)
enrichSchemaFirst(doc, T, verbose, console) ==
    enrichFrom([schema |-> doc, log |-> console, genCalls |-> <<>>, thrown |-> NoError],
               Pairs(doc), 1, T, verbose)

\* enrichSchema of the third script variant: the same loops, the messages
\* sent through messageIfVerbose
enrichSchemaScript3(doc, T, verbose, console) ==
    enrichFrom([schema |-> doc, log |-> console, genCalls |-> <<>>, thrown |-> NoError],
               Pairs(doc), 1, T, verbose)

\* enrichSchema of the second script variant: the same loops, the messages
\* guarded by if (isVerbose)
enrichSchemaScript2(doc, T, verbose, console) ==
    enrichFrom([schema |-> doc, log |-> console, genCalls |-> <<>>, thrown |-> NoError],
               Pairs(doc), 1, T, verbose)

\* the loops of the earliest variant, from the k-th pair on: the field is
\* set to [] and every snippet is written at its index; nothing is logged
RECURSIVE enrichEarliestFrom(_, _, _, _)
enrichEarliestFrom(st, pairs, k, T) ==
    IF st.thrown # NoError \/ k > Len(pairs) THEN st
    ELSE
      LET pr == pairs[k]
          generatedCode == getEndpointSnippets(st.schema, pr, T)
          calls == Append(st.genCalls, <<PathOf(st.schema, pr), MethodOf(st.schema, pr), T>>)
          written == Arr([i \in 1..Len(generatedCode.snippets) |->
                            SampleOf(generatedCode.snippets[i])])
      IN enrichEarliestFrom(
            IF generatedCode.raised
            THEN [st EXCEPT !.genCalls = calls, !.thrown = GeneratorError]
            ELSE [st EXCEPT !.schema = WithXcs(st.schema, pr, written), !.genCalls = calls],
            pairs, k + 1, T)

\* enrichSchema of the earliest script variant
enrichSchemaEarliest(doc, T, verbose, console) ==
    enrichEarliestFrom([schema |-> doc, log |-> console, genCalls |-> <<>>, thrown |-> NoError],
                       Pairs(doc), 1, T)

---------------------------------------------------------------------------
(* Strings, file names and files *)

\* a string as the sequence of the pieces the string operations of the
\* script tell apart; a string that is no file name of the model is one piece
Chunks(s) ==
    CASE s = "spec.json" -> <<"spec", ".", "json">>
      [] s = "spec.yaml" -> <<"spec", ".", "yaml">>
      [] s = "out.json" -> <<"out", ".", "json">>
      [] s = "result.yaml" -> <<"result", ".", "yaml">>
      [] s = "out.[contenthash].json" -> <<"out", ".", "[contenthash]", ".", "json">>
      [] OTHER -> <<s>>

\* String.prototype.endsWith, for a suffix that is one piece
endsWith(s, suffix) == Chunks(s)[Len(Chunks(s))] = suffix

\* a piece of a file name: a literal piece, or the fingerprint of a document
Lit(c) == [t |-> "lit", s |-> c]
HashOf(doc) == [t |-> "hash", of |-> doc]

\* the name of the file the string s names; "./" + s names the same file
FileNameOf(s) == [i \in 1..Len(Chunks(s)) |-> Lit(Chunks(s)[i])]

\* String.prototype.replace(token, by): the first piece that is token is
\* replaced by the piece by
RECURSIVE replaceFrom(_, _, _, _)
replaceFrom(name, token, by, i) ==
    IF i > Len(name) THEN name
    ELSE IF name[i] = Lit(token) THEN [name EXCEPT ![i] = by]
    ELSE replaceFrom(name, token, by, i + 1)

\* (mutation) nothing is replaced
replaceNothing(s, token, by) == FileNameOf(s)

replace(s, token, by) == replaceFrom(FileNameOf(s), token, by, 1)

\* the content of a file: a text that denotes a document, in JSON or in YAML
\* syntax, a text that denotes none, or no text at all (a directory)
TextOf(syntax, doc) == [t |-> "text", syntax |-> syntax, doc |-> doc]
Garbage == [t |-> "text", syntax |-> "none", doc |-> Undefined]
Directory == [t |-> "dir", syntax |-> "none", doc |-> Undefined]

\* JSON.stringify(schema): array elements that are undefined are written as
\* null
StringifyXcs(xcs) ==
    IF xcs.t = "array"
    THEN Arr([i \in 1..Len(xcs.items) |->
                IF xcs.items[i] = Undefined THEN Null ELSE xcs.items[i]])
    ELSE xcs

stringify(doc) ==
    TextOf("json",
        [doc EXCEPT !.paths =
            [p \in 1..Len(doc.paths) |->
                [doc.paths[p] EXCEPT !.item =
                    [m \in 1..Len(doc.paths[p].item) |->
                        [doc.paths[p].item[m] EXCEPT !.value.xcs = StringifyXcs(@)]]]]])

\* errors of the platform and of the parsers
SystemError(code) == [t |-> "SystemError", property |-> code]
SyntaxError == [t |-> "SyntaxError", property |-> ""]
TypeError == [t |-> "TypeError", property |-> ""]

\* fs.readFileSync / fs.readFile: the content read, or the error
readFile(d, name) ==
    IF name \notin DOMAIN d THEN [err |-> SystemError("ENOENT"), data |-> Garbage]
    ELSE IF d[name].t = "dir" THEN [err |-> SystemError("EISDIR"), data |-> Garbage]
    ELSE [err |-> NoError, data |-> d[name]]

\* JSON.parse(data): the document, or the SyntaxError
JSONparse(data) ==
    IF data.syntax = "json" THEN [err |-> NoError, doc |-> data.doc]
    ELSE [err |-> SyntaxError, doc |-> Undefined]

\* yaml.safeLoad(data): the document, or the error; a JSON text is a YAML text
YAMLException == [t |-> "YAMLException", property |-> ""]

safeLoad(data) ==
    IF data.syntax \in {"json", "yaml"} THEN [err |-> NoError, doc |-> data.doc]
    ELSE [err |-> YAMLException, doc |-> Undefined]

---------------------------------------------------------------------------
(* The functions of the script. Each is an operator from what the function  *)
(* reads to what it leaves: the lines it logs, the values it assigns, and    *)
(* whether it ended the process with process.exit(1).                        *)

Str(s) == [t |-> "string", s |-> s]

usageLine == logMessage(<<"npm run add-examples <swagger/openapi specification> <output destination> {[targets]} {options}">>, 0, "Usage")

\* process.argv[i], i counted from 0
Arg(a, i) == a[i + 1]

\* Array.prototype.slice(from, to)
slice(a, from, to) == SubSeq(a, from + 1, to)

isFlag(s) == s = "-v" \/ s = "--verbose"

checkParameters(a) ==
    IF Len(a) < 3
    THEN [exit |-> TRUE, isVerbose |-> FALSE,
          log |-> <<logMessage(<<"Please pass the OpenAPI JSON raw specification file name as argument.">>, 0, "Error!"),
                    usageLine>>]
    ELSE IF Len(a) < 4
    THEN [exit |-> TRUE, isVerbose |-> FALSE,
          log |-> <<logMessage(<<"Please specify an output file.">>, 0, "Error!"), usageLine>>]
    ELSE IF isFlag(Arg(a, Len(a) - 1))
    THEN [exit |-> FALSE, isVerbose |-> TRUE,
          log |-> <<logMessage(<<"Switching to verbose logging">>, 0, "Info")>>]
    ELSE [exit |-> FALSE, isVerbose |-> FALSE, log |-> <<>>]

\* (mutation) the verbosity flag is not cut off, as in the first variant of
\* the script
targetsToCheckAll(a, verbose) == slice(a, 4, Len(a))

\* the arguments configureTargets checks as targets
targetsToCheck(a, verbose) == slice(a, 4, IF verbose THEN Len(a) - 1 ELSE Len(a))

\* (mutation) no target is checked
firstInvalidIgnored(list) == 0

\* the position of the first element of the list that is no valid target, 0
\* when all are valid
firstInvalid(list) ==
    IF \A i \in 1..Len(list) : Includes(validTargets, list[i]) THEN 0
    ELSE CHOOSE i \in 1..Len(list) :
            /\ ~Includes(validTargets, list[i])
            /\ \A j \in 1..(i - 1) : Includes(validTargets, list[j])

\* (mutation) the sentinel is not recognised
defaultSpecifiedNever(a) == FALSE

\* whether the first target argument is the sentinel
defaultSpecified(a) == Arg(a, 4) = "default"

configureTargets(a, verbose, tgts) ==
    LET validating == logMessage(<<"Validating targets...">>, 0, "Info")
        list == targetsToCheck(a, verbose)
    IN IF Len(a) > 4
       THEN IF defaultSpecified(a)
            THEN [exit |-> FALSE, targets |-> tgts,
                  log |-> <<validating, logMessage(<<"Default specified, skipping.">>, 1, "Completed")>>]
            ELSE IF firstInvalid(list) # 0
            THEN [exit |-> TRUE, targets |-> tgts,
                  log |-> <<validating,
                            logMessage(<<"Target is not valid", list[firstInvalid(list)]>>, 0, "Error!")>>]
            ELSE [exit |-> FALSE, targets |-> list,
                  log |-> <<validating, logMessage(<<"All specified targets are valid">>, 1, "Completed")>>]
       ELSE [exit |-> FALSE, targets |-> tgts,
             log |-> <<logMessage(<<"No targets specified, defaulting to internally specified:">> \o tgts,
                                  0, "Warning")>>]

\* (mutation) the output file type is not checked
checkOutputFileTypeSkipped(final_spec_file) == [exit |-> FALSE, log |-> <<>>]

checkOutputFileType(final_spec_file) ==
    IF ~endsWith(final_spec_file, "json")
    THEN [exit |-> TRUE,
          log |-> <<logMessage(<<"Only JSON format is supported for output.">>, 0, "Error!"), usageLine>>]
    ELSE [exit |-> FALSE, log |-> <<>>]

\* a file system operation, for the history
FsOp(op, name) == [op |-> op, name |-> name]

\* the file system without the file name
Unlinked(d, name) == [n \in DOMAIN d \ {name} |-> d[n]]

\* (mutation) an existing file is found and left in place
removeExistingFinalSpecKept(d, specPath, final_spec_file) ==
    [exit |-> FALSE, disk |-> d, thrown |-> NoError,
     ops |-> <<FsOp("exists", FileNameOf(specPath))>>,
     log |-> <<logMessage(<<"Checking if specification.json exists">>, 0, "Info")>>]

removeExistingFinalSpec(d, specPath, final_spec_file) ==
    LET name == FileNameOf(specPath)
        checking == logMessage(<<"Checking if specification.json exists">>, 0, "Info")
    IN IF name \in DOMAIN d
       THEN IF d[name].t = "dir"
            THEN [exit |-> TRUE, disk |-> d, thrown |-> SystemError("EISDIR"),
                  ops |-> <<FsOp("exists", name)>>,
                  log |-> <<checking,
                            logMessage(<<"exists, removing...", final_spec_file>>, 1, "Info"),
                            logMessage(<<"EISDIR">>, 0, "Error!")>>]
            ELSE [exit |-> FALSE, disk |-> Unlinked(d, name), thrown |-> NoError,
                  ops |-> <<FsOp("exists", name), FsOp("unlink", name)>>,
                  log |-> <<checking,
                            logMessage(<<"exists, removing...", final_spec_file>>, 1, "Info"),
                            logMessage(<<"removed", final_spec_file>>, 1, "Completed")>>]
       ELSE [exit |-> FALSE, disk |-> d, thrown |-> NoError,
             ops |-> <<FsOp("exists", name)>>,
             log |-> <<checking,
                       logMessage(<<"does not exist, continuing", final_spec_file>>, 1, "Completed")>>]

\* the request fs.writeFile(name, data, callback) leaves in flight
NoRequest == [t |-> "none", name |-> <<>>, data |-> Garbage]
WriteRequest(name, data) == [t |-> "writeFile", name |-> name, data |-> data]
ReadRequest(name) == [t |-> "readFile", name |-> name, data |-> Garbage]

\* (mutation) the write is started whether or not enrichSchema threw
addSamplesExportAnyway(doc, fileArg, T, verbose) ==
    LET r == enrichSchema(doc, T, verbose, <<logMessage(<<"Adding samples for">> \o T, 1, "Info")>>)
    IN IF fileArg.t # "string"
       THEN [r EXCEPT !.thrown = TypeError] @@ [request |-> NoRequest, entry |-> doc]
       ELSE r @@ [request |->
                    WriteRequest(replace(fileArg.s, "[contenthash]", HashOf(r.schema)),
                                 stringify(r.schema)),
                  entry |-> doc]

\* addSamplesExport(schema, final_spec_file), called with the two arguments
\* doc and fileArg; T and verbose are the globals targets and isVerbose.
\* It ends with an exception thrown, or with the write request in flight.
addSamplesExport(doc, fileArg, T, verbose) ==
    LET adding == logMessage(<<"Adding samples for">> \o T, 1, "Info")
        r == enrichSchema(doc, T, verbose, <<adding>>)
    IN IF r.thrown # NoError
       THEN r @@ [request |-> NoRequest, entry |-> doc]
       ELSE IF fileArg.t # "string"
       THEN [r EXCEPT !.thrown = TypeError] @@ [request |-> NoRequest, entry |-> doc]
       ELSE r @@ [request |->
                    WriteRequest(replace(fileArg.s, "[contenthash]", HashOf(r.schema)),
                                 stringify(r.schema)),
                  entry |-> doc]

\* what a function that did not reach enrichSchema leaves
NotEnriched(err, lines) ==
    [schema |-> Undefined, log |-> lines, genCalls |-> <<>>, thrown |-> err,
     request |-> NoRequest, entry |-> Undefined, called |-> FALSE, read |-> FALSE]

\* processYAMLSpecification(raw_spec_file, final_spec_file)
processYAMLSpecification(d, raw_spec_file, final_spec_file, T, verbose) ==
    LET converting == logMessage(<<"Converting YAML file...">>, 0, "Info")
        file == readFile(d, FileNameOf(raw_spec_file))
        loaded == safeLoad(file.data)
        r == addSamplesExport(loaded.doc, Arr(T), T, verbose)
    IN IF file.err # NoError THEN NotEnriched(file.err, <<converting>>)
       ELSE IF loaded.err # NoError
       THEN [NotEnriched(loaded.err, <<converting>>) EXCEPT !.read = TRUE]
       ELSE [r EXCEPT !.log = <<converting, logMessage(<<"Converted YAML file">>, 1, "Completed")>> \o r.log]
            @@ [called |-> TRUE, read |-> TRUE]

\* the callback of fs.readFile in processJSONSpecification
readFileCallback(d, raw_spec_file, final_spec_file, T, verbose) ==
    LET file == readFile(d, FileNameOf(raw_spec_file))
        parsed == JSONparse(file.data)
        r == addSamplesExport(parsed.doc, Str(final_spec_file), T, verbose)
    IN IF file.err # NoError THEN NotEnriched(file.err, <<>>)
       ELSE IF parsed.err # NoError
       THEN [NotEnriched(parsed.err, <<>>) EXCEPT !.read = TRUE]
       ELSE [r EXCEPT !.log = <<logMessage(<<"Parsed JSON file">>, 1, "Completed")>> \o r.log]
            @@ [called |-> TRUE, read |-> TRUE]

\* whether processSpecificationToFile takes the source for YAML
isYAML(raw_spec_file) == endsWith(raw_spec_file, "yml") \/ endsWith(raw_spec_file, "yaml")

---------------------------------------------------------------------------
(* A run of the script: node parse.js <raw> <final> {targets} {-v}          *)

\* extra arguments after the two file names, the verbosity flag not counted
MaxArgs == 2

RawNames == {"spec.json", "spec.yaml"}
FinalNames == {"out.json", "result.yaml", "spec.json", "out.[contenthash].json"}
ArgTokens == {"shell_curl", "node_native", "bogus", "default"}
Flags == {<<>>, <<"-v">>, <<"--verbose">>}

\* the documents of the source files of the runs
PlainOp == [summary |-> "an operation", malformed |-> FALSE, xcs |-> Undefined]
PetsDoc == PathsDoc(<<(<<"get">>)>>, <<PlainOp>>)
SampledDoc == PathsDoc(<<(<<"get">>)>>, <<[PlainOp EXCEPT !.xcs = Arr(<<ManualSample>>)]>>)
MalformedDoc == PathsDoc(<<(<<"get", "post">>)>>, <<PlainOp, [PlainOp EXCEPT !.malformed = TRUE]>>)
EmptyPathsDoc == PathsDoc(<<>>, <<>>)
FileDocs == {NoPathsDoc, EmptyPathsDoc, PetsDoc, SampledDoc, MalformedDoc}

FileContents == {Garbage} \cup {TextOf(syntax, d) : syntax \in {"json", "yaml"}, d \in FileDocs}

\* the file system with the file name holding content; absent is no file
WithFile(d, name, content, absent) ==
    IF absent THEN d ELSE [n \in DOMAIN d \cup {name} |-> IF n = name THEN content ELSE d[n]]

Init ==
    /\ \E args \in
            {<<>>} \cup {<<raw>> : raw \in RawNames}
            \cup {<<raw, final>> \o t \o f :
                    raw \in RawNames, final \in FinalNames,
                    t \in SeqUpTo(ArgTokens, MaxArgs), f \in Flags} :
          /\ argv = <<"node", "parse.js">> \o args
          /\ \E rawAbsent \in BOOLEAN, rawContent \in FileContents,
                finalAbsent \in BOOLEAN, finalContent \in {Garbage, Directory} :
                disk = IF Len(args) = 0 THEN <<>>
                       ELSE IF Len(args) = 1
                       THEN WithFile(<<>>, FileNameOf(args[1]), rawContent, rawAbsent)
                       ELSE WithFile(WithFile(<<>>, FileNameOf(args[2]), finalContent, finalAbsent),
                                     FileNameOf(args[1]), rawContent, rawAbsent)
    /\ isVerbose = FALSE
    /\ targets = defaultTargets
    /\ pc = "checkParameters"
    /\ exitCode = -1
    /\ schema = Undefined
    /\ log = <<>>
    /\ fsOps = <<>>
    /\ pending = NoRequest
    /\ entry = Undefined
    /\ thrown = NoError
    /\ genCalls = <<>>
    /\ runs = 0
    /\ prevTargets = <<>>

raw_spec_file == Arg(argv, 2)
final_spec_file == Arg(argv, 3)

\* const specPath = process.argv[3]
specPath == Arg(argv, 3)

CheckParameters ==
    /\ pc = "checkParameters"
    /\ \E r \in {checkParameters(argv)} :
        /\ log' = log \o r.log
        /\ isVerbose' = r.isVerbose
        /\ pc' = IF r.exit THEN "exited" ELSE "configureTargets"
        /\ exitCode' = IF r.exit THEN 1 ELSE exitCode
    /\ UNCHANGED <<argv, disk, targets, schema, fsOps, pending, entry, thrown,
                   genCalls, runs, prevTargets>>

ConfigureTargets ==
    /\ pc = "configureTargets"
    /\ \E r \in {configureTargets(argv, isVerbose, targets)} :
        /\ log' = log \o r.log
        /\ targets' = r.targets
        /\ pc' = IF r.exit THEN "exited" ELSE "checkOutputFileType"
        /\ exitCode' = IF r.exit THEN 1 ELSE exitCode
    /\ UNCHANGED <<argv, disk, isVerbose, schema, fsOps, pending, entry, thrown,
                   genCalls, runs, prevTargets>>

CheckOutputFileType ==
    /\ pc = "checkOutputFileType"
    /\ \E r \in {checkOutputFileType(final_spec_file)} :
        /\ log' = log \o r.log
        /\ pc' = IF r.exit THEN "exited" ELSE "removeExistingFinalSpec"
        /\ exitCode' = IF r.exit THEN 1 ELSE exitCode
    /\ UNCHANGED <<argv, disk, isVerbose, targets, schema, fsOps, pending, entry,
                   thrown, genCalls, runs, prevTargets>>

RemoveExistingFinalSpec ==
    /\ pc = "removeExistingFinalSpec"
    /\ \E r \in {removeExistingFinalSpec(disk, specPath, final_spec_file)} :
        /\ log' = log \o r.log
        /\ disk' = r.disk
        /\ fsOps' = fsOps \o r.ops
        /\ thrown' = r.thrown
        /\ pc' = IF r.exit THEN "exited" ELSE "processSpecificationToFile"
        /\ exitCode' = IF r.exit THEN 1 ELSE exitCode
    /\ UNCHANGED <<argv, isVerbose, targets, schema, pending, entry, genCalls,
                   runs, prevTargets>>

\* what a call of addSamplesExport, or the failure to reach it, leaves in
\* the variables of the engine
Enriched(r) ==
    /\ schema' = r.schema
    /\ genCalls' = r.genCalls
    /\ thrown' = r.thrown
    /\ pending' = r.request
    /\ entry' = IF r.called THEN r.entry ELSE entry
    /\ runs' = IF r.called THEN runs + 1 ELSE runs
    /\ prevTargets' = prevTargets

\* processSpecificationToFile, for a YAML source: all of it runs at once, and
\* the exception thrown in it is caught, logged and ends the process
ProcessYAML ==
    /\ pc = "processSpecificationToFile"
    /\ isYAML(raw_spec_file)
    /\ \E r \in {processYAMLSpecification(disk, raw_spec_file, final_spec_file, targets, isVerbose)} :
        /\ Enriched(r)
        /\ fsOps' = fsOps \o <<FsOp("read", FileNameOf(raw_spec_file))>>
                    \o (IF r.request # NoRequest THEN <<FsOp("write", r.request.name)>> ELSE <<>>)
        /\ IF r.thrown # NoError
           THEN /\ log' = log \o r.log \o <<logMessage(<<r.thrown.t, r.thrown.property>>, 0, "Error!")>>
                /\ pc' = "exited"
                /\ exitCode' = 1
           ELSE /\ log' = log \o r.log
                /\ pc' = "writeFileCallback"
                /\ exitCode' = exitCode
    /\ UNCHANGED <<argv, disk, isVerbose, targets>>

\* processSpecificationToFile, for any other source: the read is requested
ProcessJSON ==
    /\ pc = "processSpecificationToFile"
    /\ ~isYAML(raw_spec_file)
    /\ log' = Append(log, logMessage(<<"Parsing JSON file...">>, 0, "Info"))
    /\ pending' = ReadRequest(FileNameOf(raw_spec_file))
    /\ pc' = "readFileCallback"
    /\ UNCHANGED <<argv, disk, isVerbose, targets, exitCode, schema, fsOps, entry,
                   thrown, genCalls, runs, prevTargets>>

\* the callback of fs.readFile: an exception thrown in it is caught by
\* nobody, and the process ends with exit code 1
ReadFileCallback ==
    /\ pc = "readFileCallback"
    /\ \E r \in {readFileCallback(disk, raw_spec_file, final_spec_file, targets, isVerbose)} :
        /\ Enriched(r)
        /\ fsOps' = fsOps \o <<FsOp("read", FileNameOf(raw_spec_file))>>
                    \o (IF r.request # NoRequest THEN <<FsOp("write", r.request.name)>> ELSE <<>>)
        /\ log' = log \o r.log
        /\ IF r.thrown # NoError
           THEN pc' = "exited" /\ exitCode' = 1
           ELSE pc' = "writeFileCallback" /\ exitCode' = exitCode
    /\ UNCHANGED <<argv, disk, isVerbose, targets>>

\* the callback of fs.writeFile: the file is written and the process ends,
\* or the write failed, leaving nothing or a part of the text, and the
\* error is thrown
WriteFileCallback ==
    /\ pc = "writeFileCallback"
    /\ \/ /\ disk' = WithFile(disk, pending.name, pending.data, FALSE)
          /\ log' = Append(log, logMessage(<<"Added samples and exported to:", final_spec_file>>, 2, "Completed"))
          /\ exitCode' = 0
          /\ thrown' = thrown
       \/ /\ \E partial \in BOOLEAN : disk' = WithFile(disk, pending.name, Garbage, ~partial)
          /\ log' = log
          /\ exitCode' = 1
          /\ thrown' = SystemError("EIO")
    /\ pc' = "exited"
    /\ pending' = NoRequest
    /\ UNCHANGED <<argv, isVerbose, targets, schema, fsOps, entry, genCalls, runs,
                   prevTargets>>

Next ==
    \/ CheckParameters
    \/ ConfigureTargets
    \/ CheckOutputFileType
    \/ RemoveExistingFinalSpec
    \/ ProcessYAML
    \/ ProcessJSON
    \/ ReadFileCallback
    \/ WriteFileCallback

Spec == Init /\ [][Next]_vars

---------------------------------------------------------------------------
(* The enrichment engine on its own: enrichSchema is applied to a document, *)
(* and then once more to its own result, as a second run of the tool on the *)
(* output of the first does.                                                *)

\* the target identifiers the Target Sets of the calls are made of
EnrichTargets == {"shell_curl", "node_native"}

\* the Target Sets of the calls: the ordered sets over EnrichTargets, the
\* empty one included
TargetSets ==
    {T \in SeqUpTo(EnrichTargets, Cardinality(EnrichTargets)) :
        \A i, j \in 1..Len(T) : T[i] = T[j] => i = j}

InitEnrich ==
    /\ IsDoc(schema)
    /\ targets = defaultTargets
    /\ isVerbose \in BOOLEAN
    /\ log = <<>>
    /\ entry = schema
    /\ thrown = NoError
    /\ genCalls = <<>>
    /\ runs = 0
    /\ prevTargets = <<>>
    /\ argv = <<>>
    /\ disk = <<>>
    /\ pc = "engine"
    /\ exitCode = -1
    /\ fsOps = <<>>
    /\ pending = NoRequest

\* a call enrichSchema(schema) with the Target Set T
CallEnrich(T) ==
    \E r \in {enrichSchema(schema, T, isVerbose, <<>>)} :
       /\ targets' = T
       /\ prevTargets' = targets
       /\ entry' = schema
       /\ schema' = r.schema
       /\ log' = r.log
       /\ genCalls' = r.genCalls
       /\ thrown' = r.thrown
       /\ runs' = runs + 1
       /\ UNCHANGED <<argv, disk, isVerbose, pc, exitCode, fsOps, pending>>

\* the first run
Enrich ==
    /\ pc = "engine"
    /\ runs = 0
    /\ \E T \in TargetSets : CallEnrich(T)

\* a second run, on the document the first run returned
ReEnrich ==
    /\ pc = "engine"
    /\ runs = 1
    /\ thrown = NoError
    /\ \E T \in TargetSets : CallEnrich(T)

NextEnrich == Enrich \/ ReEnrich

SpecEnrich == InitEnrich /\ [][NextEnrich]_vars

---------------------------------------------------------------------------
(* Claims about enrichSchema, checked under SpecEnrich *)

\* enrichSchema has been called: entry is the document it was given, schema
\* the document as it left it
Called == runs >= 1

\* the k-th (path, method) pair of the last call was processed to the end:
\* the generator returned for it (genCalls holds a failing call as its last)
Processed(k) == k <= Len(genCalls) /\ (thrown = NoError \/ k < Len(genCalls))

\* the snippets the generator returns for the pair pr in the last call
SnippetsFor(pr) == getEndpointSnippets(entry, pr, targets).snippets

PairSet == {Pairs(entry)[k] : k \in 1..Len(Pairs(entry))}

\* the length of the x-code-samples sequence the operation had on entry
\* (0 when the field was absent)
EntryLen(pr) ==
    IF OpAt(entry, pr).xcs.t = "array" THEN Len(OpAt(entry, pr).xcs.items) ELSE 0

\* C1: for a document without a paths property enrichSchema throws the
\* PropertyError naming paths, before any generator call, and leaves the
\* document as it was
C1_MissingPathsFails ==
    (Called /\ ~entry.hasPaths) =>
        /\ thrown = PropertyError("paths")
        /\ genCalls = <<>>
        /\ schema = entry

C1_Witness == Called /\ ~entry.hasPaths /\ Len(targets) >= 1

\* C2 as stated: every element below the length the x-code-samples sequence
\* had on entry is the same element after enrichSchema, whatever its content
C2_Original ==
    Called =>
        \A pr \in PairSet : \A i \in 0..(EntryLen(pr) - 1) :
            ArrayGet(OpAt(schema, pr).xcs, i) = ArrayGet(OpAt(entry, pr).xcs, i)

\* C2, amended: every truthy element (every object, so every sample) below
\* the length the x-code-samples sequence had on entry is the same element
\* after enrichSchema, whatever snippet the generator produced at its index;
\* a null element is replaced by the sample of the snippet generated at its
\* index, if there is one, and is otherwise left as it is
C2_TruthyEntriesKept ==
    Called =>
        \A k \in 1..Len(Pairs(entry)) :
            LET pr == Pairs(entry)[k] IN
            \A i \in 0..(EntryLen(pr) - 1) :
                LET before == ArrayGet(OpAt(entry, pr).xcs, i)
                    after == ArrayGet(OpAt(schema, pr).xcs, i)
                IN IF Truthy(before) \/ ~Processed(k) \/ i >= Len(SnippetsFor(pr))
                   THEN after = before
                   ELSE after = [t |-> "object",
                                 lang |-> SnippetsFor(pr)[i + 1].title,
                                 source |-> SnippetsFor(pr)[i + 1].content]

\* an operation held a hand-written sample at index 0, the generator
\* produced a snippet at index 0, and enrichSchema returned
C2_Witness ==
    /\ Called
    /\ thrown = NoError
    /\ \E pr \in PairSet :
        /\ EntryLen(pr) >= 1
        /\ ArrayGet(OpAt(entry, pr).xcs, 0) = ManualSample
        /\ Len(SnippetsFor(pr)) >= 1

\* C3: enrichSchema on its own result, with the same Target Set, changes
\* nothing: every generated index is occupied and the document is the same
C3_Idempotent ==
    (runs = 2 /\ thrown = NoError /\ targets = prevTargets) =>
        /\ schema = entry
        /\ \A pr \in PairSet : \A i \in 0..(Len(SnippetsFor(pr)) - 1) :
              Truthy(ArrayGet(OpAt(entry, pr).xcs, i))

\* a second call with the same, non-empty Target Set returned, on a document
\* with an operation
C3_Witness ==
    /\ runs = 2
    /\ thrown = NoError
    /\ targets = prevTargets
    /\ Len(targets) >= 1
    /\ PairSet # {}

\* C4: an operation without an x-code-samples field on entry has, after
\* enrichSchema, exactly the samples of the generated snippets, in generator
\* order: entry i is {lang: title of snippet i, source: content of snippet i}
C4_FreshFieldHoldsSnippets ==
    Called =>
        \A k \in 1..Len(Pairs(entry)) :
            LET pr == Pairs(entry)[k] IN
            (Processed(k) /\ OpAt(entry, pr).xcs = Undefined) =>
                OpAt(schema, pr).xcs =
                    Arr([i \in 1..Len(SnippetsFor(pr)) |->
                            [t |-> "object",
                             lang |-> SnippetsFor(pr)[i].title,
                             source |-> SnippetsFor(pr)[i].content]])

\* an operation without the field was enriched with two snippets
C4_Witness ==
    /\ Called
    /\ thrown = NoError
    /\ \E pr \in PairSet :
        /\ OpAt(entry, pr).xcs = Undefined
        /\ Len(SnippetsFor(pr)) = 2
        /\ OpAt(schema, pr).xcs.t = "array"
        /\ Len(OpAt(schema, pr).xcs.items) = 2

---------------------------------------------------------------------------
(* Claims about a run of the script, checked under Spec *)

\* the arguments after the two file names
ExtraArgs == IF Len(argv) > 4 THEN SubSeq(argv, 5, Len(argv)) ELSE <<>>

\* the run was given the trailing verbosity flag
FlagGiven == ExtraArgs # <<>> /\ ExtraArgs[Len(ExtraArgs)] \in {"-v", "--verbose"}

\* the target identifiers the caller supplied: the arguments after the two
\* file names, the trailing verbosity flag left out
SuppliedTargets ==
    IF FlagGiven THEN SubSeq(ExtraArgs, 1, Len(ExtraArgs) - 1) ELSE ExtraArgs

\* the fixed vocabulary of 22 target identifiers
Vocabulary ==
    {"c_libcurl", "csharp_restsharp", "go_native", "java_okhttp", "java_unirest",
     "javascript_jquery", "javascript_xhr", "node_native", "node_request",
     "node_unirest", "objc_nsurlsession", "ocaml_cohttp", "php_curl", "php_http1",
     "php_http2", "python_python3", "python_requests", "ruby_native", "shell_curl",
     "shell_httpie", "shell_wget", "swift_nsurlsession"}

\* the built-in default ordered set
SevenDefaults ==
    <<"php_curl", "javascript_xhr", "java_okhttp", "python_requests",
      "python_python3", "go_native", "shell_curl">>

\* the sentinel was given as the first target
SentinelFirst == SuppliedTargets # <<>> /\ SuppliedTargets[1] = "default"

\* the first supplied identifier outside the vocabulary
Offending ==
    SuppliedTargets[CHOOSE i \in 1..Len(SuppliedTargets) :
        /\ SuppliedTargets[i] \notin Vocabulary
        /\ \A j \in 1..(i - 1) : SuppliedTargets[j] \in Vocabulary]

InvalidTargetSupplied ==
    /\ Len(argv) >= 4
    /\ ~SentinelFirst
    /\ \E i \in 1..Len(SuppliedTargets) : SuppliedTargets[i] \notin Vocabulary

Logged(line) == \E i \in 1..Len(log) : log[i] = line

LoggedMsg(first) == \E i \in 1..Len(log) : log[i].msg[1] = first

\* target validation is over
TargetsConfigured == pc \notin {"checkParameters", "configureTargets"}

\* C5: a supplied target outside the vocabulary ends the run at once with
\* exit code 1 and an error naming it, before any file is read, removed or
\* written and before a document is loaded or changed; and the Target Set
\* never holds an identifier outside the vocabulary
C5_InvalidTargetEndsRun ==
    /\ \A i \in 1..Len(targets) : targets[i] \in Vocabulary
    /\ InvalidTargetSupplied =>
        /\ pc \in {"checkParameters", "configureTargets", "exited"}
        /\ fsOps = <<>>
        /\ schema = Undefined
        /\ runs = 0
        /\ targets = SevenDefaults
        /\ pc = "exited" =>
            /\ exitCode = 1
            /\ Logged([msg |-> <<"Target is not valid", Offending>>, nesting |-> 0, type |-> "Error!"])

\* a run with a valid target followed by an invalid one has ended
C5_Witness ==
    /\ InvalidTargetSupplied
    /\ Len(SuppliedTargets) = 2
    /\ SuppliedTargets[1] \in Vocabulary
    /\ FlagGiven
    /\ pc = "exited"

\* the caller supplied both file names and no target identifier
NoTargetSupplied == Len(argv) >= 4 /\ SuppliedTargets = <<>>

\* C6 as stated: with the two file names and no target identifier, with or
\* without the verbosity flag, the Target Set is the default list and the
\* warning is logged
C6_Original ==
    (NoTargetSupplied /\ TargetsConfigured) =>
        /\ targets = SevenDefaults
        /\ LoggedMsg("No targets specified, defaulting to internally specified:")

\* the supplied identifiers are all of the vocabulary, and there is one
AllTargetsValid ==
    /\ Len(argv) >= 4
    /\ SuppliedTargets # <<>>
    /\ \A i \in 1..Len(SuppliedTargets) : SuppliedTargets[i] \in Vocabulary

\* C7: a non-empty list of valid targets, with or without the trailing
\* verbosity flag, is accepted, and the Target Set is the list as supplied
C7_ValidTargetsAccepted ==
    (AllTargetsValid /\ TargetsConfigured) =>
        /\ targets = SuppliedTargets
        /\ LoggedMsg("All specified targets are valid")
        /\ ~LoggedMsg("Target is not valid")

\* two different valid targets and the flag were given
C7_Witness ==
    /\ AllTargetsValid
    /\ TargetsConfigured
    /\ FlagGiven
    /\ Len(SuppliedTargets) = 2
    /\ SuppliedTargets[1] # SuppliedTargets[2]

\* C8: with the sentinel as the first target nothing is validated, the run
\* goes on, and the Target Set is the default list of seven
C8_SentinelSelectsDefaults ==
    (Len(argv) >= 4 /\ SentinelFirst /\ TargetsConfigured) =>
        /\ targets = SevenDefaults
        /\ LoggedMsg("Default specified, skipping.")
        /\ ~LoggedMsg("Target is not valid")
        /\ pc = "exited" => LoggedMsg("Only JSON format is supported for output.")
                            \/ fsOps # <<>>

\* the sentinel was followed by an identifier outside the vocabulary, and
\* the document was enriched with the default list
C8_Witness ==
    /\ Len(argv) >= 4
    /\ SentinelFirst
    /\ Len(SuppliedTargets) = 2
    /\ SuppliedTargets[2] \notin Vocabulary
    /\ runs = 1
    /\ Len(genCalls) >= 1

\* the requested output filename does not end in json
OutputNotJSON ==
    /\ Len(argv) >= 4
    /\ Chunks(argv[4])[Len(Chunks(argv[4]))] # "json"

FatalCondition ==
    \/ Len(argv) < 4
    \/ InvalidTargetSupplied
    \/ OutputNotJSON
    \/ thrown.t \in {"SystemError", "SyntaxError", "YAMLException",
                     "PropertyError", "GeneratorError"}

\* C10 as stated: a run ends with exit code 1 if a fatal condition occurred
\* and with exit code 0 otherwise, and exit code 0 is reached only when the
\* enriched document was handed to the writer
C10_Original ==
    pc = "exited" =>
        /\ exitCode = (IF FatalCondition THEN 1 ELSE 0)
        /\ exitCode = 0 =>
              \E i \in 1..Len(fsOps) : fsOps[i].op = "write"

\* the source file holds a text the parser of the run accepts
SourceParsed ==
    /\ Len(argv) >= 4
    /\ \E i \in 1..Len(fsOps) : fsOps[i].op = "read"
    /\ thrown.t \notin {"SystemError", "SyntaxError", "YAMLException"}

\* the write of the output file was started
WriteStarted == \E i \in 1..Len(fsOps) : fsOps[i].op = "write"

\* the name of the file the run is to write: the requested output filename,
\* the token replaced by the fingerprint of the enriched document
OutputName == replace(argv[4], "[contenthash]", HashOf(schema))

\* C11 as stated: whichever loader parsed the source, a run whose document
\* has paths and makes the generator raise nowhere enriches the document,
\* writes its JSON text to the requested output file and ends successfully
\* (a failure of the write itself left aside)
C11_Original ==
    (/\ pc = "exited"
     /\ SourceParsed
     /\ thrown.t \notin {"PropertyError", "GeneratorError"}
     /\ thrown # SystemError("EIO")) =>
        /\ exitCode = 0
        /\ OutputName \in DOMAIN disk
        /\ disk[OutputName] = stringify(schema)

\* C12: the write of the output file is started at most once, and only
\* after enrichSchema returned with every (path, key) pair processed; when
\* the document has no paths or the generator raised, the run ends with the
\* failure, enrichSchema having been called once, no write is started and
\* no output file exists
C12_WriteOnlyAfterEnrichment ==
    /\ Cardinality({i \in 1..Len(fsOps) : fsOps[i].op = "write"}) <= 1
    /\ runs <= 1
    /\ WriteStarted =>
        /\ runs = 1
        /\ thrown.t \notin {"PropertyError", "GeneratorError"}
        /\ entry.hasPaths
        /\ Len(genCalls) = Len(Pairs(entry))
        /\ fsOps[Len(fsOps)] = FsOp("write", OutputName)
    /\ thrown.t \in {"PropertyError", "GeneratorError"} =>
        /\ pc = "exited"
        /\ exitCode = 1
        /\ ~WriteStarted
        /\ pending = NoRequest
        /\ Len(genCalls) <= Len(Pairs(entry))
        /\ DOMAIN disk \subseteq {FileNameOf(argv[3])}

\* the generator raised on the second operation of a document, after the
\* first was enriched
C12_Witness ==
    /\ pc = "exited"
    /\ thrown = GeneratorError
    /\ Len(genCalls) = 2
    /\ schema # entry

\* a run wrote the enriched document of a source with an operation
C12_WitnessWritten ==
    /\ pc = "exited"
    /\ exitCode = 0
    /\ WriteStarted
    /\ Len(genCalls) >= 1

---------------------------------------------------------------------------
(* Further claims about enrichSchema, checked under SpecEnrich *)

\* enrichSchema was called on a document with paths and returned
Returned == Called /\ entry.hasPaths /\ thrown = NoError

\* the indices of the sequence xcs that hold a sample (counted from 0)
Populated(xcs) == {i \in 0..(Len(xcs.items) + Len(targets)) : Truthy(ArrayGet(xcs, i))}

\* C13: after enrichSchema returned, every entry under every path has an
\* x-code-samples sequence, at least as long as the number of indices
\* populated in it; every index a snippet was generated for is populated
C13_EveryOperationHasSequence ==
    Returned =>
        \A pr \in PairSet :
            /\ OpAt(schema, pr).xcs.t = "array"
            /\ Len(OpAt(schema, pr).xcs.items) >= Cardinality(Populated(OpAt(schema, pr).xcs))
            /\ \A i \in 0..(Len(SnippetsFor(pr)) - 1) : i \in Populated(OpAt(schema, pr).xcs)

\* a document with two operations without the field, and one with a null
\* entry, was enriched
C13_Witness ==
    /\ Returned
    /\ runs = 1
    /\ Len(targets) >= 1
    /\ \E pr \in PairSet : OpAt(entry, pr).xcs = Undefined
    /\ \E pr \in PairSet : OpAt(entry, pr).xcs = Arr(<<Null>>)

---------------------------------------------------------------------------
(* Further claims about a run of the script, checked under Spec *)

\* the name the write of the run was started with
WrittenName == fsOps[CHOOSE i \in 1..Len(fsOps) : fsOps[i].op = "write"].name

\* the requested output filename holds the substitution token
HasToken == \E i \in 1..Len(Chunks(argv[4])) : Chunks(argv[4])[i] = "[contenthash]"

\* C14: the file written is named by the requested output filename with the
\* token [contenthash] replaced by the fingerprint of the document as it is
\* after enrichment, so that the name is a function of the template and the
\* enriched document; a template without the token is used unchanged; the
\* file of that name holds the JSON text of the enriched document
C14_ContentAddressedName ==
    WriteStarted =>
        /\ schema = enrichSchema(entry, targets, isVerbose, <<>>).schema
        /\ WrittenName =
             [i \in 1..Len(Chunks(argv[4])) |->
                IF Chunks(argv[4])[i] = "[contenthash]"
                THEN [t |-> "hash", of |-> schema]
                ELSE [t |-> "lit", s |-> Chunks(argv[4])[i]]]
        /\ ~HasToken => WrittenName = FileNameOf(argv[4])
        /\ (pc = "exited" /\ exitCode = 0) =>
              /\ WrittenName \in DOMAIN disk
              /\ disk[WrittenName] = stringify(schema)

\* a run with the token in the template wrote a document that enrichment
\* had changed
C14_Witness ==
    /\ pc = "exited"
    /\ exitCode = 0
    /\ WriteStarted
    /\ HasToken
    /\ schema # entry
    /\ WrittenName # FileNameOf(argv[4])

---------------------------------------------------------------------------
(* Claims about the traversal of enrichSchema, checked under SpecEnrich *)

\* the number of members of the document given to enrichSchema that lie
\* under the first p paths
RECURSIVE MembersUpTo(_)
MembersUpTo(p) == IF p = 0 THEN 0 ELSE Len(entry.paths[p].item) + MembersUpTo(p - 1)

\* the place of the member with the given keys in the iteration order of the
\* document given to enrichSchema, counted from 1; 0 if there is none
Rank(path, method) ==
    IF \E p \in 1..Len(entry.paths) :
          /\ entry.paths[p].key = path
          /\ \E m \in 1..Len(entry.paths[p].item) : entry.paths[p].item[m].key = method
    THEN LET p == CHOOSE q \in 1..Len(entry.paths) : entry.paths[q].key = path
             m == CHOOSE n \in 1..Len(entry.paths[p].item) : entry.paths[p].item[n].key = method
         IN MembersUpTo(p - 1) + m
    ELSE 0

Rerun == runs = 2 /\ thrown = NoError

Max(a, b) == IF a >= b THEN a ELSE b

\* the x-code-samples sequence of the pair pr after the first and after the
\* second run
First(pr) == OpAt(entry, pr).xcs
Second(pr) == OpAt(schema, pr).xcs

\* C16 as stated: after a second run with a Target Set of other order or
\* size, every entry below n1 is as the first run left it, the entries at
\* n1..n2-1 are the samples of the second run's snippets at those indices,
\* and nothing else is added
C16_Original ==
    (Rerun /\ prevTargets # targets) =>
        \A pr \in PairSet :
            /\ \A i \in 0..(Len(prevTargets) - 1) : ArrayGet(Second(pr), i) = ArrayGet(First(pr), i)
            /\ \A i \in Len(prevTargets)..(Len(targets) - 1) :
                  ArrayGet(Second(pr), i) = SampleOf(SnippetsFor(pr)[i + 1])
            /\ Len(Second(pr).items) = Max(Len(First(pr).items), Len(targets))
            /\ \A i \in Max(Len(prevTargets), Len(targets))..(Len(First(pr).items) - 1) :
                  ArrayGet(Second(pr), i) = ArrayGet(First(pr), i)

\* C16, amended: after a second run every entry below n1 is a truthy entry
\* and is as the first run left it; at an index below n2 a truthy entry of
\* the first run's result is kept (also at n1 or beyond, where it is an
\* entry the document held before the first run) and any other is the
\* sample of the second run's snippet at that index; the entries from n2 on
\* are kept, and the sequence is as long as the longer of the first run's
\* result and n2
C16_PositionalDrift ==
    Rerun =>
        \A pr \in PairSet :
            /\ \A i \in 0..(Len(prevTargets) - 1) :
                  /\ Truthy(ArrayGet(First(pr), i))
                  /\ ArrayGet(Second(pr), i) = ArrayGet(First(pr), i)
            /\ \A i \in 0..(Len(targets) - 1) :
                  ArrayGet(Second(pr), i) =
                     IF Truthy(ArrayGet(First(pr), i))
                     THEN ArrayGet(First(pr), i)
                     ELSE [t |-> "object", lang |-> targets[i + 1],
                           source |-> SnippetsFor(pr)[i + 1].content]
            /\ \A i \in Len(targets)..(Len(First(pr).items) - 1) :
                  ArrayGet(Second(pr), i) = ArrayGet(First(pr), i)
            /\ Len(Second(pr).items) = Max(Len(First(pr).items), Len(targets))

\* the first run had one target and the second two, the first run's target
\* last: the operation holds the first run's language twice, and the other
\* language of the second run not at all
C16_Witness ==
    /\ Rerun
    /\ Len(prevTargets) = 1
    /\ Len(targets) = 2
    /\ targets[2] = prevTargets[1]
    /\ \E pr \in PairSet :
          /\ Len(Second(pr).items) = 2
          /\ Second(pr).items[1].lang = prevTargets[1]
          /\ Second(pr).items[2].lang = prevTargets[1]

---------------------------------------------------------------------------
(* The variants of enrichSchema side by side: one of them is applied to a   *)
(* document; pc tells which                                                 *)

InitVariants ==
    /\ IsDoc(schema)
    /\ targets = defaultTargets
    /\ isVerbose \in BOOLEAN
    /\ log = <<>>
    /\ entry = schema
    /\ thrown = NoError
    /\ genCalls = <<>>
    /\ runs = 0
    /\ prevTargets = <<>>
    /\ argv = <<>>
    /\ disk = <<>>
    /\ pc = "variants"
    /\ exitCode = -1
    /\ fsOps = <<>>
    /\ pending = NoRequest

\* the call left the result r; variant is the variant called
CallVariant(variant, T, r) ==
    /\ pc = "variants"
    /\ pc' = variant
    /\ targets' = T
    /\ prevTargets' = targets
    /\ entry' = schema
    /\ schema' = r.schema
    /\ log' = r.log
    /\ genCalls' = r.genCalls
    /\ thrown' = r.thrown
    /\ runs' = runs + 1
    /\ UNCHANGED <<argv, disk, isVerbose, exitCode, fsOps, pending>>

EnrichEarliest ==
    \E T \in TargetSets :
       \E r \in {enrichSchemaEarliest(schema, T, isVerbose, <<>>)} : CallVariant("earliest", T, r)

EnrichScript2 ==
    \E T \in TargetSets :
       \E r \in {enrichSchemaScript2(schema, T, isVerbose, <<>>)} : CallVariant("script2", T, r)

EnrichScript3 ==
    \E T \in TargetSets :
       \E r \in {enrichSchemaScript3(schema, T, isVerbose, <<>>)} : CallVariant("script3", T, r)

EnrichFirst ==
    \E T \in TargetSets :
       \E r \in {enrichSchemaFirst(schema, T, isVerbose, <<>>)} : CallVariant("first", T, r)

EnrichLatest ==
    \E T \in TargetSets :
       \E r \in {enrichSchema(schema, T, isVerbose, <<>>)} : CallVariant("latest", T, r)

NextVariants ==
    \/ EnrichEarliest
    \/ EnrichScript2
    \/ EnrichScript3
    \/ EnrichFirst
    \/ EnrichLatest

SpecVariants == InitVariants /\ [][NextVariants]_vars

\* the positional merge policy, between the document given and the document
\* left: a field that was present is not reset, and a truthy entry of it is
\* left untouched
PositionalPolicy ==
    \A pr \in PairSet :
        FieldPresent(OpAt(entry, pr)) =>
            /\ OpAt(schema, pr).xcs.t = "array"
            /\ Len(OpAt(schema, pr).xcs.items) >= Len(OpAt(entry, pr).xcs.items)
            /\ \A i \in 0..(Len(OpAt(entry, pr).xcs.items) - 1) :
                  Truthy(ArrayGet(OpAt(entry, pr).xcs, i)) =>
                      ArrayGet(OpAt(schema, pr).xcs, i) = ArrayGet(OpAt(entry, pr).xcs, i)

\* the policy of the earliest variant: whatever the operation held, its
\* field is the sequence of the samples of the generated snippets
ResetPolicy ==
    \A pr \in PairSet :
        OpAt(schema, pr).xcs =
            [t |-> "array",
             items |-> [i \in 1..Len(SnippetsFor(pr)) |->
                          [t |-> "object", lang |-> SnippetsFor(pr)[i].title,
                           source |-> SnippetsFor(pr)[i].content]]]

\* a variant was called and returned
VariantReturned == pc # "variants" /\ thrown = NoError

\* C17 as stated: every variant of enrichSchema applies the positional
\* merge policy
C17_Original == VariantReturned => PositionalPolicy

\* C17, amended: the two variants of src/parse.js and the second and third
\* script variants apply the positional merge policy; the earliest variant
\* resets the field and writes every generated sample
C17_VariantPolicies ==
    VariantReturned =>
        /\ pc \in {"script2", "script3", "first", "latest"} => PositionalPolicy
        /\ pc = "earliest" => ResetPolicy

\* the earliest variant replaced a hand-written sample
C17_Witness ==
    /\ VariantReturned
    /\ pc = "earliest"
    /\ Len(targets) = 1
    /\ \E pr \in PairSet :
          /\ OpAt(entry, pr).xcs = Arr(<<ManualSample>>)
          /\ OpAt(schema, pr).xcs # OpAt(entry, pr).xcs

---------------------------------------------------------------------------
(* Claims about what enrichSchema changes, checked under SpecEnrich *)

\* a document with the x-code-samples fields left out
WithoutSamples(doc) ==
    [doc EXCEPT !.paths =
        [p \in 1..Len(doc.paths) |->
            [doc.paths[p] EXCEPT !.item =
                [m \in 1..Len(doc.paths[p].item) |->
                    [doc.paths[p].item[m] EXCEPT !.value.xcs = Undefined]]]]]

\* everything but the x-code-samples fields is as it was given: the other
\* fields of the document, the path keys and the keys under them and their
\* order, the other fields of each operation
FrameKept == WithoutSamples(schema) = WithoutSamples(entry)

\* the field of the pair pr was created, or extended at its end
CreatedOrExtended(pr) ==
    \/ Second(pr) = First(pr)
    \/ /\ First(pr) = Undefined
       /\ Second(pr).t = "array"
    \/ /\ First(pr).t = "array"
       /\ Second(pr).t = "array"
       /\ Len(Second(pr).items) >= Len(First(pr).items)
       /\ SubSeq(Second(pr).items, 1, Len(First(pr).items)) = First(pr).items

\* C18 as stated: the only change enrichSchema makes is to create or extend
\* the x-code-samples field of the operations
C18_Original ==
    Called => (FrameKept /\ \A pr \in PairSet : CreatedOrExtended(pr))

\* C18, amended: enrichSchema changes nothing but the x-code-samples field
\* of the operations, which it creates, extends, or fills where it holds a
\* null entry at a generated index; every sample the field held is unchanged
\* and at its index
C18_Frame ==
    Called =>
        /\ FrameKept
        /\ \A pr \in PairSet :
              \/ Second(pr) = First(pr)
              \/ /\ First(pr) = Undefined
                 /\ Second(pr).t = "array"
              \/ /\ First(pr).t = "array"
                 /\ Second(pr).t = "array"
                 /\ Len(Second(pr).items) >= Len(First(pr).items)
                 /\ \A i \in 1..Len(First(pr).items) :
                       \/ Second(pr).items[i] = First(pr).items[i]
                       \/ /\ First(pr).items[i] = Null
                          /\ i <= Len(targets)

\* an operation with a hand-written sample was given a second sample, and
\* an operation after it has its field created
C18_Witness ==
    /\ Returned
    /\ runs = 1
    /\ Len(targets) = 2
    /\ Len(Pairs(entry)) = 2
    /\ First(Pairs(entry)[1]) = Arr(<<ManualSample>>)
    /\ Len(Second(Pairs(entry)[1]).items) = 2
    /\ First(Pairs(entry)[2]) = Undefined

\* the keys of a path item that are HTTP methods
HttpMethods == {"get", "put", "post", "delete", "options", "head", "patch", "trace"}

\* C19 as stated: the generator is called for, and the x-code-samples field
\* is given to, only the members of a path item whose key is an HTTP method
C19_Original ==
    Called =>
        /\ \A k \in 1..Len(genCalls) : genCalls[k][2] \in HttpMethods
        /\ \A pr \in PairSet :
              MethodOf(entry, pr) \notin HttpMethods => Second(pr) = First(pr)

---------------------------------------------------------------------------
(* Claims about the notices of enrichSchema, checked under SpecEnrich *)

\* the entry the pair pr held at index i (counted from 0) when enrichSchema
\* was called; undefined where there was no field or no entry
EntryAt(pr, i) == IF First(pr).t = "array" THEN ArrayGet(First(pr), i) ELSE Undefined

\* the generated snippets of the last call whose index was occupied: the
\* pair and the index, counted from 1
Skipped ==
    {x \in PairSet \X (1..Len(targets)) : Truthy(EntryAt(x[1], x[2] - 1))}

\* the lines of the console that are skip notices
SkipNotices ==
    {k \in 1..Len(log) : log[k].msg[1] = "Field already exists in path, skipping."}

\* C20: there is one skip notice per generated snippet whose index was
\* occupied, each naming the snippet's title and the path, verbose or not,
\* and none for a snippet that was written; a skipped snippet leaves the
\* entry at its index as it was and its sample is written nowhere
C20_SkipNotices ==
    Returned =>
        /\ Cardinality(SkipNotices) = Cardinality(Skipped)
        /\ \A k \in SkipNotices : log[k].type = "Warning"
        /\ \A path \in {PathOf(entry, pr) : pr \in PairSet} :
           \A i \in 1..Len(targets) :
              Cardinality({k \in SkipNotices : log[k].msg = <<"Field already exists in path, skipping.", targets[i], path>>})
                = Cardinality({x \in Skipped : PathOf(entry, x[1]) = path /\ x[2] = i})
        /\ \A x \in Skipped :
              /\ ArrayGet(Second(x[1]), x[2] - 1) = EntryAt(x[1], x[2] - 1)
              /\ \A pr \in PairSet :
                 \A j \in 1..Len(Second(pr).items) :
                    Second(pr).items[j] = [t |-> "object", lang |-> targets[x[2]],
                                           source |-> SnippetsFor(x[1])[x[2]].content]
                       => EntryAt(pr, j - 1) = Second(pr).items[j]

\* a run that was not verbose skipped the first of two snippets, for a
\* hand-written sample, and wrote the second
C20_Witness ==
    /\ Returned
    /\ runs = 1
    /\ ~isVerbose
    /\ Len(targets) = 2
    /\ Cardinality(Skipped) = 1
    /\ Len(log) = 1
    /\ \E pr \in PairSet :
          /\ First(pr) = Arr(<<ManualSample>>)
          /\ Len(Second(pr).items) = 2

---------------------------------------------------------------------------
(* Claims about the length of the sequence, checked under SpecEnrich *)

\* the sample of the snippet generated at index i (counted from 0) for pr
SampleAt(pr, i) ==
    [t |-> "object", lang |-> SnippetsFor(pr)[i + 1].title,
     source |-> SnippetsFor(pr)[i + 1].content]

\* C21 as stated: the sequence, m long on entry, is Max(m, n) long after
\* enrichSchema; the first m entries are as they were, the entries at
\* m..n-1 are the samples of the snippets at those indices, and there is no
\* hole
C21_Original ==
    Returned =>
        \A pr \in PairSet :
            /\ Len(Second(pr).items) = Max(EntryLen(pr), Len(SnippetsFor(pr)))
            /\ \A i \in 0..(EntryLen(pr) - 1) : ArrayGet(Second(pr), i) = EntryAt(pr, i)
            /\ \A i \in EntryLen(pr)..(Len(SnippetsFor(pr)) - 1) :
                  ArrayGet(Second(pr), i) = SampleAt(pr, i)
            /\ \A i \in 0..(Len(Second(pr).items) - 1) : ArrayGet(Second(pr), i) # Undefined

\* C21, amended: the sequence is Max(m, n) long after enrichSchema; a
\* truthy entry among the first m keeps its position; samples are written
\* at the indices m..n-1 and at the indices below both m and n that held
\* null; an entry at n or beyond is as it was; there is no hole
C21_LengthIsMax ==
    Returned =>
        \A pr \in PairSet :
            /\ Len(Second(pr).items) = Max(EntryLen(pr), Len(SnippetsFor(pr)))
            /\ \A i \in 0..(Len(Second(pr).items) - 1) :
                  /\ ArrayGet(Second(pr), i) # Undefined
                  /\ ArrayGet(Second(pr), i) =
                       IF i < EntryLen(pr) /\ (Truthy(EntryAt(pr, i)) \/ i >= Len(SnippetsFor(pr)))
                       THEN EntryAt(pr, i)
                       ELSE SampleAt(pr, i)

\* an operation holding one hand-written sample was given two snippets
C21_Witness ==
    /\ Returned
    /\ runs = 1
    /\ \E pr \in PairSet :
          /\ First(pr) = Arr(<<ManualSample>>)
          /\ Len(SnippetsFor(pr)) = 2
          /\ Len(Second(pr).items) = 2
          /\ Second(pr).items[1] = ManualSample

---------------------------------------------------------------------------
(* Claims about the verbosity flag and the files, checked under Spec *)

\* the arguments of the run without the trailing verbosity flag
ArgvWithoutFlag == IF FlagGiven THEN SubSeq(argv, 1, Len(argv) - 1) ELSE argv

\* what target validation leaves in the run that differs from this one only
\* in not having the flag
ConfiguredWithoutFlag == configureTargets(ArgvWithoutFlag, FALSE, defaultTargets)

\* C22 as stated: a run with the trailing verbosity flag has the Target Set,
\* the outcome of target validation and the enriched document of the run
\* with the same arguments without the flag
C22_Original ==
    (Len(argv) >= 4 /\ FlagGiven /\ TargetsConfigured) =>
        /\ LoggedMsg("Target is not valid") <=> ConfiguredWithoutFlag.exit
        /\ targets = ConfiguredWithoutFlag.targets
        /\ runs = 1 =>
              schema = enrichSchema(entry, ConfiguredWithoutFlag.targets, FALSE, <<>>).schema

\* the file the raw spec path names
SourceName == FileNameOf(argv[3])

\* C23 as stated: no run removes the source specification file, also when
\* the raw spec path and the requested output path name the same file, so
\* that a source that exists is read and its document is the one enriched
C23_Original ==
    Len(argv) >= 4 =>
        /\ \A i \in 1..Len(fsOps) : fsOps[i].op = "unlink" => fsOps[i].name # SourceName
        /\ \A i \in 1..Len(fsOps) :
              (fsOps[i].op = "read" /\ thrown = SystemError("ENOENT")) =>
                 ~\E j \in 1..(i - 1) : fsOps[j] = FsOp("unlink", SourceName)

\* the file the requested output path names
OutputPath == FileNameOf(argv[4])

\* the run got as far as loading the source
LoadingReached ==
    \/ pc \in {"processSpecificationToFile", "readFileCallback", "writeFileCallback"}
    \/ pc = "exited" /\ \E i \in 1..Len(fsOps) : fsOps[i].op = "read"

\* the run ended fatally while loading or enriching
FailedLoadingOrEnriching ==
    /\ pc = "exited"
    /\ \E i \in 1..Len(fsOps) : fsOps[i].op = "read"
    /\ thrown.t \in {"SystemError", "SyntaxError", "YAMLException", "PropertyError",
                     "GeneratorError", "TypeError"}
    /\ ~WriteStarted

====
